---- MODULE Spec2Model ----
(***************************************************************************)
(* PACER RSS scraper (rss_scrape.py): the incremental scrape, the          *)
(* watermark file "lasttime", the kill-switch file and the notifier.       *)
(*                                                                         *)
(* An invocation of the script is a process p.  The files and the feeds    *)
(* are shared; everything else is local to the invocation.                 *)
(***************************************************************************)
EXTENDS Integers, Sequences, FiniteSets, TLC

\* ---------------------------------------------------------------- bounds
MaxRuns    == 2   \* invocations of the script in one behaviour
MaxEntries == 2   \* entries of all court feeds together
MaxPieces  == 3   \* fragments of markup in an entry's description

Procs  == {"p1", "p2"}
Courts == {"c1", "c2"}

\* ------------------------------------------------------- program constants
HTTP_OK        == 200   \* the only status get_feed accepts
KS_THRESHOLD   == 2
NO_LAST_TIME   == 0

VARIABLES
    killswitch,   \* the file KILL_SWITCH
    lasttime,     \* the file LAST_TIME
    feeds,        \* what each court's RSS feed holds: court -> sequence of entries
    cases,        \* the watchlist handed to scrape: court -> set of case identifiers
    procs,        \* the invocations the scheduler starts
    runs,         \* number of invocations started so far
    pc,           \* position of each invocation
    run,          \* which invocation (1..runs) the process is executing
    email,        \* closure variable of notify
    twitter,      \* closure variable of notify
    pacer_feeds,  \* scrape's dict: court -> status of the fetched feed (0: not fetched)
    last_seen,    \* scrape's local
    court,        \* loop variable of the outer loop
    idx,          \* position of the inner loop in feed['entries'] (1-based)
    visited,      \* courts whose inner loop has ended
    delivery,     \* what the notify call in progress did (history)
    exitcode,     \* exit status of the finished invocation
    startWm,      \* history: the watermark persisted when the invocation started
    startKs,      \* history: the kill-switch file as the invocation found it
    notified,     \* history: run -> sequence of <<court, index>> handed to the notifier
    written,      \* history: run -> sequence of [entry, value] of its set_last_time calls
    reads,        \* history: get_last_time calls of the invocation in progress
    overlapped,   \* history: an invocation was started while another was running
    crashed,      \* history: the runs that were interrupted
    parsed        \* a parse_entry call: its argument and what it returned

env   == <<killswitch, lasttime, feeds, cases, procs, runs>>
local == <<pc, run, email, twitter, pacer_feeds, last_seen, court, idx, visited,
           delivery, exitcode, startWm, startKs>>
hist  == <<written, reads, overlapped, crashed>>
vars  == <<env, local, notified, hist, parsed>>

\* ------------------------------------------------------------ text files
NL == "\n"
DigitChars == <<"0", "1", "2", "3", "4", "5", "6", "7", "8", "9">>
DigitVal(ch) == (CHOOSE d \in 1..10 : DigitChars[d] = ch) - 1

\* str(n) for an integer n >= 0: its decimal digits
RECURSIVE str(_)
str(n) == IF n < 10 THEN <<DigitChars[n + 1]>>
          ELSE str(n \div 10) \o <<DigitChars[(n % 10) + 1]>>

\* int(s) for a line of decimal digits; surrounding whitespace (the newline) is ignored
RECURSIVE int(_)
int(s) ==
    IF s = <<>> THEN 0
    ELSE IF s[Len(s)] = NL THEN int(SubSeq(s, 1, Len(s) - 1))
    ELSE 10 * int(SubSeq(s, 1, Len(s) - 1)) + DigitVal(s[Len(s)])

\* a file: missing, unreadable (IOError on open), or readable with a first line
NoFile     == [state |-> "absent",     line |-> <<>>]
Unreadable == [state |-> "unreadable", line |-> <<>>]
File(line) == [state |-> "ok",         line |-> line]

\* a line of n characters, the last one the newline
RECURSIVE Line(_)
Line(n) == IF n = 0 THEN <<>> ELSE IF n = 1 THEN <<NL>> ELSE <<"x">> \o Line(n - 1)

\* ----------------------------------------------------------- feed entries
\* published_parsed is a struct_time; its minute and second fields are kept
StructTime(m, s) == [tm_min |-> m, tm_sec |-> s]
mktime(t) == 60 * t.tm_min + t.tm_sec

CaseA == <<"a">>
CaseB == <<"b">>
\* links as character sequences; "?" is the separator scrape splits on
Links == { <<"u", "?">> \o CaseA, <<"u", "?">> \o CaseA \o <<"?">> \o CaseB }
\* two publication instants, an older and a newer one
Minutes == {1, 2}
Times == { StructTime(m, 0) : m \in Minutes }
Entries == [link : Links, published_parsed : Times]

\* entry['link'].split("?")[-1]
RECURSIVE LastSegment(_)
LastSegment(link) ==
    IF link = <<>> THEN <<>>
    ELSE IF link[Len(link)] = "?" THEN <<>>
    ELSE LastSegment(SubSeq(link, 1, Len(link) - 1)) \o <<link[Len(link)]>>

\* ------------------------------------------------------------ the stores
\* variant: a missing or unreadable marker read as "set"
kill_switch_set_OnIOError(f) ==
    IF f.state = "ok" THEN Len(f.line) > KS_THRESHOLD
    ELSE TRUE

kill_switch_set(f) ==
    IF f.state = "ok" THEN Len(f.line) > KS_THRESHOLD
    ELSE FALSE        \* IOError: "we don't have a killswitch"

set_kill_switch == File(<<"s","c","r","i","p","t"," ","d","i","s","a","b","l","e","d">> \o <<NL>>)

set_last_time(time) == File(str(time) \o <<NL>>)

get_last_time(f) ==
    IF f.state = "ok" THEN int(f.line)
    ELSE NO_LAST_TIME  \* IOError: the file doesn't exist yet

\* ------------------------------------------------------------ the notifier
Channels   == {"email", "twitter"}
NoDelivery == [attempted |-> <<>>, caught |-> {}, raised |-> FALSE]

\* one "if flag: try: send(...) except Exception: print_exc()" block of notify;
\* fails is the set of channels whose send raises
\* variant: the send is not wrapped in try/except
TryChannel_NoCatch(ch, enabled, fails, d) ==
    IF d.raised \/ ~enabled THEN d
    ELSE [attempted |-> Append(d.attempted, ch),
          caught    |-> d.caught,
          raised    |-> ch \in fails]

TryChannel(ch, enabled, fails, d) ==
    IF d.raised \/ ~enabled THEN d
    ELSE [attempted |-> Append(d.attempted, ch),
          caught    |-> d.caught \cup ({ch} \cap fails),
          raised    |-> FALSE]

notify(em, tw, fails) ==
    TryChannel("twitter", tw, fails, TryChannel("email", em, fails, NoDelivery))

\* the channels a notifier made with these flags must try, in order
Enabled(em, tw) ==
    (IF em THEN <<"email">> ELSE <<>>) \o (IF tw THEN <<"twitter">> ELSE <<>>)

\* ------------------------------------------------------------ the watchlist
WatchLists ==
    { ("c1" :> {CaseA}),
      ("c1" :> {CaseA}) @@ ("c2" :> {CaseB}),
      ("c1" :> {CaseA, CaseB}) @@ ("c2" :> {}) }

\* variant: the identifier is looked up in every court's list
Matches_AnyCourt(cs, c, entry) == \E d \in DOMAIN cs : LastSegment(entry.link) \in cs[d]

\* an entry is of interest to a court when its link's last segment is on that court's list
Matches(cs, c, entry) == LastSegment(entry.link) \in cs[c]

\* ------------------------------------------------------------ the feeds
RECURSIVE SeqsUpTo(_, _)
SeqsUpTo(S, n) ==
    IF n = 0 THEN { <<>> }
    ELSE LET shorter == SeqsUpTo(S, n - 1)
         IN  shorter \cup { Append(q, x) : q \in {r \in shorter : Len(r) = n - 1}, x \in S }

RECURSIVE TotalLen(_, _)
TotalLen(f, cs) ==
    IF cs = {} THEN 0
    ELSE LET c == CHOOSE x \in cs : TRUE IN Len(f[c]) + TotalLen(f, cs \ {c})

FeedSets(cs) ==
    { f \in [Courts -> SeqsUpTo(Entries, MaxEntries)] :
        /\ TotalLen(f, Courts) <= MaxEntries
        /\ \A c \in Courts \ DOMAIN cs : f[c] = <<>> }

\* the kill-switch file as an operator may have left it: none, one the script may not
\* open, a first line at the threshold of kill_switch_set and one just over it
KillFiles == {NoFile, Unreadable, File(Line(KS_THRESHOLD)), File(Line(KS_THRESHOLD + 1))}

\* the watermark file before the first invocation: none yet, or one left behind when the
\* feeds last held an entry of the older instant
LastTimeFiles == { NoFile } \cup
    { set_last_time(mktime(t)) : t \in { u \in Times : \A v \in Times : mktime(u) <= mktime(v) } }

Idle(p) == pc[p] \in {"idle", "done", "aborted", "exited", "crashed"}

\* ------------------------------------------------------------ parse_entry
\* text is a sequence of characters, as in the files above
Digits == { DigitChars[d] : d \in 1..10 }
Lower  == { "a", "b", "c", "d", "e", "f", "g", "h", "i", "j", "k", "l", "m",
            "n", "o", "p", "q", "r", "s", "t", "u", "v", "w", "x", "y", "z" }
Href   == <<"h", "r", "e", "f", "=", "\"">>
Ecf    == <<"e", "c", "f", ".">>
Sentinel == <<"?">>

\* what p.search returns: None, or a match object with its group(1)
NoMatch  == [found |-> FALSE, group |-> <<>>]
Match(g) == [found |-> TRUE, group |-> g]

IsPrefixAt(pat, s, i) ==
    /\ i + Len(pat) - 1 <= Len(s)
    /\ SubSeq(s, i, i + Len(pat) - 1) = pat

\* a greedy character class: the last position of the run of class C that starts at i
RECURSIVE RunEnd(_, _, _)
RunEnd(s, i, C) ==
    IF i <= Len(s) /\ s[i] \in C THEN RunEnd(s, i + 1, C) ELSE i - 1

\* a greedy ".*" followed by ch: the last ch at or after i before the line ends (0: none)
RECURSIVE LastOnLine(_, _, _, _)
LastOnLine(s, i, ch, best) ==
    IF i > Len(s) \/ s[i] = NL THEN best
    ELSE LastOnLine(s, i + 1, ch, IF s[i] = ch THEN i ELSE best)

\* re.compile(">([0-9]+)<").search(s), trying the start positions from i on
RECURSIVE search_num(_, _)
search_num(s, i) ==
    IF i > Len(s) THEN NoMatch
    ELSE LET e == RunEnd(s, i + 1, Digits) IN
         IF s[i] = ">" /\ e > i /\ e < Len(s) /\ s[e + 1] = "<"
         THEN Match(SubSeq(s, i + 1, e))
         ELSE search_num(s, i + 1)

\* re.compile("href=\"(.*)\"").search(s)
RECURSIVE search_link(_, _)
search_link(s, i) ==
    IF i > Len(s) THEN NoMatch
    ELSE LET q == LastOnLine(s, i + Len(Href), "\"", 0) IN
         IF IsPrefixAt(Href, s, i) /\ q > 0
         THEN Match(SubSeq(s, i + Len(Href), q - 1))
         ELSE search_link(s, i + 1)

\* re.compile("ecf\.([a-z]+)\.").search(s)
RECURSIVE search_court(_, _)
search_court(s, i) ==
    IF i > Len(s) THEN NoMatch
    ELSE LET e == RunEnd(s, i + Len(Ecf), Lower) IN
         IF IsPrefixAt(Ecf, s, i) /\ e >= i + Len(Ecf) /\ e < Len(s) /\ s[e + 1] = "."
         THEN Match(SubSeq(s, i + Len(Ecf), e))
         ELSE search_court(s, i + 1)

\* re.compile("^\[(.+)\]").search(s): anchored at the start of the text
search_description(s) ==
    LET q == LastOnLine(s, 2, "]", 0) IN
    IF s # <<>> /\ s[1] = "[" /\ q > 2 THEN Match(SubSeq(s, 2, q - 1)) ELSE NoMatch

\* " ".join(title.split(" ")[1:]): what follows the first space
RECURSIVE strip_case(_)
strip_case(title) ==
    IF title = <<>> THEN <<>>
    ELSE IF Head(title) = " " THEN Tail(title)
    ELSE strip_case(Tail(title))

AttributeError == <<"AttributeError">>

\* variant: group(1) is taken from whatever search returned
GroupOrSentinel_NoCheck(m) == IF m.found THEN m.group ELSE AttributeError

\* (m.group(1) if m else "?")
GroupOrSentinel(m) == IF m.found THEN m.group ELSE Sentinel

parse_entry(entry) ==
    LET num         == GroupOrSentinel(search_num(entry.description, 1))
        link        == GroupOrSentinel(search_link(entry.description, 1))
        court_      == GroupOrSentinel(search_court(entry.link, 1))
        description == GroupOrSentinel(search_description(entry.summary))
    IN  [ raised      |-> AttributeError \in {num, link, court_, description},
          num         |-> num,
          link        |-> link,
          case        |-> strip_case(entry.title),
          court       |-> court_,
          time        |-> entry.published_parsed,
          description |-> description ]

\* the entries handed to parse_entry: the description is any sequence of a few fragments
\* of the markup the patterns look for, the other fields are samples with and without
\* their pattern
RECURSIVE Cat(_)
Cat(q) == IF q = <<>> THEN <<>> ELSE Head(q) \o Cat(Tail(q))

DescPieces == { Href, <<"\"">>, <<">">>, <<"<">>, <<"7">>, <<">", "4", "2", "<">>, <<NL>> }
Descriptions == { Cat(q) : q \in SeqsUpTo(DescPieces, MaxPieces) }
Summaries ==
    { <<"[", "x", "]">>, <<"[", "x">>, <<"x", "]">>, <<"[", "]">>,
      <<"[", "a", "]", "[", "b", "]">>, <<"x", "[", "y", "]">>, <<"[", "x", NL, "y", "]">> }
EcfLinks ==
    { Ecf \o <<"n", "d", ".", "u">>, Ecf \o <<".", "u">>, Ecf \o <<"n", "d">>,
      Ecf \o <<"a", ".">> \o Ecf \o <<"b", ".">> }
Titles == { <<"1", " ", "A", " ", "B">>, <<"1">> }

ParseEntries ==
    [description : Descriptions, summary : Summaries, link : EcfLinks, title : Titles,
     published_parsed : Times]

NoEntry == [description |-> <<>>, summary |-> <<>>, link |-> <<>>, title |-> <<>>,
            published_parsed |-> StructTime(0, 0)]
NoInfo  == [raised |-> FALSE, num |-> <<>>, link |-> <<>>, case |-> <<>>, court |-> <<>>,
            time |-> StructTime(0, 0), description |-> <<>>]
NoParse == [called |-> FALSE, entry |-> NoEntry, info |-> NoInfo]

\* no invocation is under way
InitLocal ==
    /\ pc = [p \in Procs |-> "idle"]
    /\ run = [p \in Procs |-> 0]
    /\ email = [p \in Procs |-> FALSE]
    /\ twitter = [p \in Procs |-> FALSE]
    /\ pacer_feeds = [p \in Procs |-> [c \in Courts |-> 0]]
    /\ last_seen = [p \in Procs |-> 0]
    /\ court = [p \in Procs |-> "c1"]
    /\ idx = [p \in Procs |-> 1]
    /\ visited = [p \in Procs |-> {}]
    /\ delivery = [p \in Procs |-> NoDelivery]
    /\ exitcode = [p \in Procs |-> 0]
    /\ startWm = [p \in Procs |-> 0]
    /\ startKs = [p \in Procs |-> NoFile]
    /\ notified = [r \in 1..MaxRuns |-> <<>>]
    /\ written = [r \in 1..MaxRuns |-> <<>>]
    /\ reads = [p \in Procs |-> 0]
    /\ overlapped = FALSE
    /\ crashed = {}

Init ==
    /\ killswitch \in KillFiles
    /\ lasttime \in LastTimeFiles
    /\ cases \in WatchLists
    /\ feeds \in FeedSets(cases)
    /\ procs = {"p1"}
    /\ runs = 0
    /\ InitLocal
    /\ parsed = NoParse

\* ------------------------------------------------------------ operations
Statuses == {HTTP_OK, 404}

\* finished invocations keep their last local state until the process is started again
Fresh(p) ==
    /\ pacer_feeds' = [pacer_feeds EXCEPT ![p] = [c \in Courts |-> 0]]
    /\ last_seen' = [last_seen EXCEPT ![p] = 0]
    /\ court' = [court EXCEPT ![p] = "c1"]
    /\ idx' = [idx EXCEPT ![p] = 1]
    /\ visited' = [visited EXCEPT ![p] = {}]
    /\ delivery' = [delivery EXCEPT ![p] = NoDelivery]
    /\ exitcode' = [exitcode EXCEPT ![p] = 0]

\* __main__ with the kill switch set: print and sys.exit()
MainKilled(p) ==
    /\ p \in procs /\ Idle(p) /\ runs < MaxRuns
    /\ kill_switch_set(killswitch)
    /\ runs' = runs + 1
    /\ run' = [run EXCEPT ![p] = runs + 1]
    /\ startWm' = [startWm EXCEPT ![p] = get_last_time(lasttime)]
    /\ startKs' = [startKs EXCEPT ![p] = killswitch]
    /\ pc' = [pc EXCEPT ![p] = "exited"]
    /\ email' = [email EXCEPT ![p] = FALSE]
    /\ twitter' = [twitter EXCEPT ![p] = FALSE]
    /\ Fresh(p)
    /\ reads' = [reads EXCEPT ![p] = 0]
    /\ overlapped' = (overlapped \/ \E q \in Procs \ {p} : ~Idle(q))
    /\ UNCHANGED <<killswitch, lasttime, feeds, cases, procs, notified, written, crashed, parsed>>

\* __main__ otherwise: parse the flags, make the notifier, enter scrape
Main(p) ==
    /\ p \in procs /\ Idle(p) /\ runs < MaxRuns
    /\ ~kill_switch_set(killswitch)
    /\ runs' = runs + 1
    /\ run' = [run EXCEPT ![p] = runs + 1]
    /\ startWm' = [startWm EXCEPT ![p] = get_last_time(lasttime)]
    /\ startKs' = [startKs EXCEPT ![p] = killswitch]
    /\ \E em \in BOOLEAN, tw \in BOOLEAN :
          /\ email' = [email EXCEPT ![p] = em]
          /\ twitter' = [twitter EXCEPT ![p] = tw]
    /\ pc' = [pc EXCEPT ![p] = "load"]
    /\ Fresh(p)
    /\ reads' = [reads EXCEPT ![p] = 0]
    /\ overlapped' = (overlapped \/ \E q \in Procs \ {p} : ~Idle(q))
    /\ UNCHANGED <<killswitch, lasttime, feeds, cases, procs, notified, written, crashed, parsed>>

\* variant: the status is not looked at
get_feed_raises_Never(status) == FALSE

\* get_feed's verdict on a fetched feed: TRUE when it raises
get_feed_raises(status) == status # HTTP_OK

\* one get_feed call of the dict comprehension
GetFeed(p) ==
    /\ pc[p] = "load"
    /\ \E c \in DOMAIN cases, status \in Statuses :
          /\ pacer_feeds[p][c] = 0
          /\ pacer_feeds' = [pacer_feeds EXCEPT ![p][c] = status]
          /\ IF get_feed_raises(status)
             THEN /\ pc' = [pc EXCEPT ![p] = "aborted"]
                  /\ exitcode' = [exitcode EXCEPT ![p] = 1]
             ELSE UNCHANGED <<pc, exitcode>>
    /\ UNCHANGED <<env, run, email, twitter, last_seen, court, idx, visited,
                   delivery, startWm, startKs, notified, hist, parsed>>

\* last_seen = get_last_time(), once every feed is loaded
ReadLastTime(p) ==
    /\ pc[p] = "load"
    /\ \A c \in DOMAIN cases : pacer_feeds[p][c] # 0
    /\ last_seen' = [last_seen EXCEPT ![p] = get_last_time(lasttime)]
    /\ reads' = [reads EXCEPT ![p] = @ + 1]
    /\ pc' = [pc EXCEPT ![p] = "courts"]
    /\ UNCHANGED <<env, run, email, twitter, pacer_feeds, court, idx, visited,
                   delivery, exitcode, startWm, startKs, notified,
                   written, overlapped, crashed, parsed>>

\* variant: the watermark is read again at the head of every court
NextCourt_Reread(p) ==
    /\ pc[p] = "courts"
    /\ \E c \in DOMAIN cases \ visited[p] :
          /\ court' = [court EXCEPT ![p] = c]
          /\ idx' = [idx EXCEPT ![p] = 1]
    /\ last_seen' = [last_seen EXCEPT ![p] = get_last_time(lasttime)]
    /\ reads' = [reads EXCEPT ![p] = @ + 1]
    /\ pc' = [pc EXCEPT ![p] = "entries"]
    /\ UNCHANGED <<env, run, email, twitter, pacer_feeds, visited,
                   delivery, exitcode, startWm, startKs, notified, written, overlapped, crashed, parsed>>

\* for court, feed in pacer_feeds.items(): the next court, in any order
NextCourt(p) ==
    /\ pc[p] = "courts"
    /\ \E c \in DOMAIN cases \ visited[p] :
          /\ court' = [court EXCEPT ![p] = c]
          /\ idx' = [idx EXCEPT ![p] = 1]
    /\ pc' = [pc EXCEPT ![p] = "entries"]
    /\ UNCHANGED <<env, run, email, twitter, pacer_feeds, last_seen, visited,
                   delivery, exitcode, startWm, startKs, notified, hist, parsed>>

\* the outer loop is exhausted: "Scrape completed."
Complete(p) ==
    /\ pc[p] = "courts"
    /\ visited[p] = DOMAIN cases
    /\ pc' = [pc EXCEPT ![p] = "done"]
    /\ exitcode' = [exitcode EXCEPT ![p] = 0]
    /\ UNCHANGED <<env, run, email, twitter, pacer_feeds, last_seen, court, idx, visited,
                   delivery, startWm, startKs, notified, hist, parsed>>

\* variant: "<" for "<="
AlreadySeen_Strict(entry, seen) == mktime(entry.published_parsed) < seen

\* variant: the watermark is not consulted, the loop never breaks
AlreadySeen_Never(entry, seen) == FALSE

\* "check to see if we've already seen this": TRUE when the inner loop breaks
AlreadySeen(entry, seen) == mktime(entry.published_parsed) <= seen

EndCourt(p) ==
    /\ pc' = [pc EXCEPT ![p] = "courts"]
    /\ visited' = [visited EXCEPT ![p] = @ \cup {court[p]}]
    /\ UNCHANGED idx

\* variant: "continue" for "break"
Break_Continue(p) ==
    /\ idx' = [idx EXCEPT ![p] = @ + 1]
    /\ UNCHANGED <<pc, visited>>

\* the break of the inner loop: this court is finished
Break(p) == EndCourt(p)

\* for entry in feed['entries']: the break test and the watchlist test
Examine(p) ==
    /\ pc[p] = "entries"
    /\ LET feed == feeds[court[p]] IN
          IF idx[p] > Len(feed) THEN EndCourt(p)
          ELSE IF AlreadySeen(feed[idx[p]], last_seen[p]) THEN Break(p)
          ELSE IF Matches(cases, court[p], feed[idx[p]])
               THEN /\ pc' = [pc EXCEPT ![p] = "notify"]
                    /\ UNCHANGED <<idx, visited>>
               ELSE /\ idx' = [idx EXCEPT ![p] = @ + 1]
                    /\ UNCHANGED <<pc, visited>>
    /\ delivery' = [delivery EXCEPT ![p] = NoDelivery]   \* the last notify call is history
    /\ UNCHANGED <<env, run, email, twitter, pacer_feeds, last_seen, court,
                   exitcode, startWm, startKs, notified, hist, parsed>>

\* notifier(entry)
Notify(p) ==
    /\ pc[p] = "notify"
    /\ \E fails \in SUBSET Channels :
          LET d == notify(email[p], twitter[p], fails) IN
          /\ delivery' = [delivery EXCEPT ![p] = d]
          /\ IF d.raised
             THEN /\ pc' = [pc EXCEPT ![p] = "aborted"]
                  /\ exitcode' = [exitcode EXCEPT ![p] = 1]
             ELSE /\ pc' = [pc EXCEPT ![p] = "persist"]
                  /\ UNCHANGED exitcode
    /\ notified' = [notified EXCEPT ![run[p]] = Append(@, <<court[p], idx[p]>>)]
    /\ UNCHANGED <<env, run, email, twitter, pacer_feeds, last_seen, court, idx, visited,
                   startWm, startKs, hist, parsed>>

\* the value scrape hands to set_last_time for an entry
NewLastTime(entry) == mktime(entry.published_parsed)

\* variant: the watermark is not written
SetLastTime_NoWrite(p) ==
    /\ pc[p] = "persist"
    /\ idx' = [idx EXCEPT ![p] = @ + 1]
    /\ delivery' = [delivery EXCEPT ![p] = NoDelivery]
    /\ pc' = [pc EXCEPT ![p] = "entries"]
    /\ UNCHANGED <<env, run, email, twitter, pacer_feeds,
                   last_seen, court, visited, exitcode, startWm, startKs, notified, hist, parsed>>

\* variant: the inner loop is left after the first match
SetLastTime_Break(p) ==
    /\ pc[p] = "persist"
    /\ lasttime' = set_last_time(NewLastTime(feeds[court[p]][idx[p]]))
    /\ delivery' = [delivery EXCEPT ![p] = NoDelivery]
    /\ pc' = [pc EXCEPT ![p] = "courts"]
    /\ visited' = [visited EXCEPT ![p] = @ \cup {court[p]}]
    /\ written' = [written EXCEPT ![run[p]] =
                      Append(@, [entry |-> <<court[p], idx[p]>>, value |-> get_last_time(lasttime')])]
    /\ UNCHANGED <<killswitch, feeds, cases, procs, runs, run, email, twitter, pacer_feeds,
                   last_seen, court, idx, exitcode, startWm, startKs, notified,
                   reads, overlapped, crashed, parsed>>

\* variant: the watermark is written only when some channel delivered
SetLastTime_OnlyOnSuccess(p) ==
    /\ pc[p] = "persist"
    /\ IF delivery[p].attempted # <<>> /\
          \A i \in 1..Len(delivery[p].attempted) : delivery[p].attempted[i] \in delivery[p].caught
       THEN UNCHANGED <<lasttime, written>>
       ELSE /\ lasttime' = set_last_time(NewLastTime(feeds[court[p]][idx[p]]))
            /\ written' = [written EXCEPT ![run[p]] =
                      Append(@, [entry |-> <<court[p], idx[p]>>, value |-> get_last_time(lasttime')])]
    /\ idx' = [idx EXCEPT ![p] = @ + 1]
    /\ pc' = [pc EXCEPT ![p] = "entries"]
    /\ UNCHANGED <<killswitch, feeds, cases, procs, runs, run, email, twitter, pacer_feeds,
                   last_seen, court, visited, delivery, exitcode, startWm, startKs, notified,
                   reads, overlapped, crashed, parsed>>

\* variant: the watermark only moves forward
SetLastTime_Max(p) ==
    /\ pc[p] = "persist"
    /\ LET new == NewLastTime(feeds[court[p]][idx[p]])
           old == get_last_time(lasttime)
       IN  lasttime' = set_last_time(IF new > old THEN new ELSE old)
    /\ idx' = [idx EXCEPT ![p] = @ + 1]
    /\ pc' = [pc EXCEPT ![p] = "entries"]
    /\ written' = [written EXCEPT ![run[p]] =
                      Append(@, [entry |-> <<court[p], idx[p]>>, value |-> get_last_time(lasttime')])]
    /\ UNCHANGED <<killswitch, feeds, cases, procs, runs, run, email, twitter, pacer_feeds,
                   last_seen, court, visited, delivery, exitcode, startWm, startKs, notified,
                   reads, overlapped, crashed, parsed>>

\* set_last_time(time.mktime(entry['published_parsed'])), then on to the next entry
SetLastTime(p) ==
    /\ pc[p] = "persist"
    /\ lasttime' = set_last_time(NewLastTime(feeds[court[p]][idx[p]]))
    /\ idx' = [idx EXCEPT ![p] = @ + 1]
    /\ pc' = [pc EXCEPT ![p] = "entries"]
    /\ written' = [written EXCEPT ![run[p]] =
                      Append(@, [entry |-> <<court[p], idx[p]>>, value |-> get_last_time(lasttime')])]
    /\ UNCHANGED <<killswitch, feeds, cases, procs, runs, run, email, twitter, pacer_feeds,
                   last_seen, court, visited, delivery, exitcode, startWm, startKs, notified,
                   reads, overlapped, crashed, parsed>>

\* the operator disables the script between invocations
SetKillSwitch ==
    /\ \A p \in Procs : Idle(p)
    /\ runs > 0 /\ runs < MaxRuns
    /\ killswitch # set_kill_switch
    /\ killswitch' = set_kill_switch
    /\ UNCHANGED <<lasttime, feeds, cases, procs, runs, local, notified, hist, parsed>>

Next ==
    \/ \E p \in Procs :
          \/ MainKilled(p)
          \/ Main(p)
          \/ GetFeed(p)
          \/ ReadLastTime(p)
          \/ NextCourt(p)
          \/ Complete(p)
          \/ Examine(p)
          \/ Notify(p)
          \/ SetLastTime(p)
    \/ SetKillSwitch

Spec == Init /\ [][Next]_vars

\* ------------------------------------------------------------ overlapping invocations
\* two invocations (cron firing while the previous one still runs) over the same files
\* and the same feeds; nothing in the script keeps the second from starting
InitRace ==
    /\ killswitch = NoFile
    /\ lasttime = NoFile
    /\ cases \in { cs \in WatchLists : \A c \in Courts : c \in DOMAIN cs /\ cs[c] # {} }
    /\ feeds \in FeedSets(cases)
    /\ procs = Procs
    /\ runs = 0
    /\ InitLocal
    /\ parsed = NoParse

SpecRace == InitRace /\ [][Next]_vars

\* ------------------------------------------------------------ progress
\* the steps of scrape itself: once __main__ has entered it, the interpreter keeps
\* executing, and every call it makes (fetch, channel, file) returns or raises
Step(p) ==
    \/ GetFeed(p)
    \/ ReadLastTime(p)
    \/ NextCourt(p)
    \/ Complete(p)
    \/ Examine(p)
    \/ Notify(p)
    \/ SetLastTime(p)

\* the invocation that is followed to its end: earlier ones, which matched nothing, have
\* left the kill switch off and the watermark absent or at the oldest instant
InitLive ==
    /\ killswitch = NoFile
    /\ lasttime \in LastTimeFiles
    /\ cases \in WatchLists
    /\ feeds \in FeedSets(cases)
    /\ procs = {"p1"}
    /\ runs = MaxRuns - 1
    /\ InitLocal
    /\ parsed = NoParse

SpecLive == InitLive /\ [][Next]_vars /\ \A p \in Procs : WF_vars(Step(p))

\* ------------------------------------------------------------ parse_entry on its own
\* an entry is at hand and no invocation of the script is involved
InitParse ==
    /\ killswitch = NoFile
    /\ lasttime = NoFile
    /\ cases = ("c1" :> {CaseA})
    /\ feeds = [c \in Courts |-> <<>>]
    /\ procs = {}
    /\ runs = 0
    /\ InitLocal
    /\ parsed \in { [called |-> FALSE, entry |-> e, info |-> NoInfo] : e \in ParseEntries }

\* info = parse_entry(entry)
ParseEntry ==
    /\ ~parsed.called
    /\ parsed' = [called |-> TRUE, entry |-> parsed.entry, info |-> parse_entry(parsed.entry)]
    /\ UNCHANGED <<env, local, notified, hist>>

SpecParse == InitParse /\ [][ParseEntry]_vars

\* ------------------------------------------------------------ interrupted runs
\* the process is killed somewhere inside scrape, between two of its steps; what it wrote
\* to the files so far stays
Crash(p) ==
    /\ p \in procs
    /\ pc[p] \in {"load", "courts", "entries", "notify", "persist"}
    /\ pc' = [pc EXCEPT ![p] = "crashed"]
    /\ crashed' = crashed \cup {run[p]}
    /\ UNCHANGED <<env, run, email, twitter, pacer_feeds, last_seen, court, idx, visited,
                   delivery, exitcode, startWm, startKs, notified, written, reads, overlapped, parsed>>

NextCrash ==
    \/ Next
    \/ \E p \in Procs : Crash(p)

SpecCrash == Init /\ [][NextCrash]_vars

\* ------------------------------------------------------------ vocabulary of the properties
Watermark == get_last_time(lasttime)

\* an entry is named by its court and its position in that court's feed
EntryOf(e) == feeds[e[1]][e[2]]
PubTime(e) == mktime(EntryOf(e).published_parsed)
AllEntries == { <<c, i>> : c \in Courts, i \in 1..MaxEntries } \cap
              { e \in Courts \X (1..MaxEntries) : e[2] <= Len(feeds[e[1]]) }
OnWatchlist(e) == e[1] \in DOMAIN cases /\ LastSegment(EntryOf(e).link) \in cases[e[1]]

NotifiedIn(r) == { notified[r][i] : i \in 1..Len(notified[r]) }
TimesNotified(r, e) == Cardinality({ i \in 1..Len(notified[r]) : notified[r][i] = e })
Started(p) == p \in procs /\ run[p] > 0

\* C1: after a run that completes, the persisted watermark is at least the publication
\* time of every entry notified in that run and in all earlier runs.
C1_WatermarkCoversNotified ==
    \A p \in Procs :
        (Started(p) /\ pc[p] = "done") =>
            \A r \in 1..run[p] : \A e \in NotifiedIn(r) : Watermark >= PubTime(e)

\* C2: over non-overlapping completed runs on unchanged feeds, no entry is notified in
\* more than one run.
C2_NoEntryNotifiedInTwoRuns ==
    \A r1 \in 1..MaxRuns, r2 \in 1..MaxRuns :
        r1 < r2 => NotifiedIn(r1) \cap NotifiedIn(r2) = {}

\* C3: no step lowers the persisted watermark.
C3_WatermarkNonDecreasing ==
    [][get_last_time(lasttime') >= get_last_time(lasttime)]_vars

\* C4: whenever the notifier is about to be invoked for an entry, that entry's publication
\* time is strictly greater than the watermark persisted at that moment.
C4_NotifiedAbovePersistedWatermark ==
    \A p \in Procs :
        (Started(p) /\ pc[p] = "notify") => PubTime(<<court[p], idx[p]>>) > Watermark

\* C4 as amended: whenever the notifier is about to be invoked for an entry, that entry's
\* publication time is strictly greater than the watermark the run read at its start.
C4_NotifiedAboveLastSeen ==
    \A p \in Procs :
        (Started(p) /\ pc[p] = "notify") => PubTime(<<court[p], idx[p]>>) > last_seen[p]

\* the notifier is about to be invoked after the run has already moved the watermark
C4_Witness ==
    \E p \in Procs :
        /\ Started(p) /\ pc[p] = "notify"
        /\ last_seen[p] > 0
        /\ Watermark > last_seen[p]
        /\ PubTime(<<court[p], idx[p]>>) <= Watermark

\* C5: when no entry of any feed is newer than the watermark persisted at the start of a
\* run, the run notifies nothing and leaves the watermark as it was.
NothingNew(w) == \A e \in AllEntries : PubTime(e) <= w

C5_IdempotentWithoutNewEntries ==
    \A p \in Procs :
        (Started(p) /\ NothingNew(startWm[p])) =>
            /\ notified[run[p]] = <<>>
            /\ Watermark = startWm[p]

\* a second run over feeds whose watched entries were all notified by the first
C5_Witness ==
    \E p \in Procs :
        /\ Started(p) /\ pc[p] = "done" /\ run[p] = 2
        /\ NothingNew(startWm[p])
        /\ notified[1] # <<>>
        /\ \E e \in AllEntries : OnWatchlist(e) /\ PubTime(e) = startWm[p]

\* C6: one court, one case, one entry on the watchlist published at T: a completed run
\* that starts below T notifies that entry once and leaves the watermark at T; a
\* completed run that starts at T notifies nothing and leaves the watermark at T.
C6_Scenario(c) ==
    /\ DOMAIN cases = {c}
    /\ Cardinality(cases[c]) = 1
    /\ Len(feeds[c]) = 1
    /\ OnWatchlist(<<c, 1>>)

C6_SingleEntryScenario ==
    \A p \in Procs, c \in Courts :
        (Started(p) /\ pc[p] = "done" /\ C6_Scenario(c)) =>
            LET T == PubTime(<<c, 1>>) IN
            /\ startWm[p] < T => notified[run[p]] = << <<c, 1>> >> /\ Watermark = T
            /\ startWm[p] = T => notified[run[p]] = <<>> /\ Watermark = T

\* the second run of the scenario has completed
C6_Witness ==
    \E p \in Procs, c \in Courts :
        /\ Started(p) /\ pc[p] = "done" /\ run[p] = 2
        /\ C6_Scenario(c)
        /\ notified[1] = << <<c, 1>> >>
        /\ startWm[p] = PubTime(<<c, 1>>)

\* C7: an invocation that finds the kill-switch marker with more than two characters on
\* its first line exits with status 0 having fetched nothing, notified nothing and left the
\* watermark alone; one that finds the marker absent or unreadable goes on to scrape.
NoFeedFetched(p) == \A c \in Courts : pacer_feeds[p][c] = 0

C7_KillSwitchShortCircuit ==
    \A p \in Procs :
        Started(p) =>
            /\ (startKs[p].state = "ok" /\ Len(startKs[p].line) > 2) =>
                    /\ pc[p] = "exited" /\ exitcode[p] = 0
                    /\ NoFeedFetched(p)
                    /\ notified[run[p]] = <<>>
                    /\ Watermark = startWm[p]
            /\ startKs[p].state \in {"absent", "unreadable"} => pc[p] # "exited"

\* the switch stops an invocation that follows one which notified and moved the watermark
C7_Witness ==
    \E p \in Procs :
        /\ Started(p) /\ pc[p] = "exited" /\ run[p] = 2
        /\ notified[1] # <<>>
        /\ Watermark > 0
        /\ \E e \in AllEntries : OnWatchlist(e) /\ PubTime(e) > Watermark

\* C8: once the fetch of any court has returned a status other than 200 the run is
\* aborted with an error, has notified nothing and has left the watermark unchanged.
FetchFailed(p) == \E c \in Courts : pacer_feeds[p][c] \notin {0, 200}

C8_FetchFailureIsFatal ==
    \A p \in Procs :
        (Started(p) /\ FetchFailed(p)) =>
            /\ pc[p] = "aborted" /\ exitcode[p] = 1
            /\ notified[run[p]] = <<>>
            /\ Watermark = startWm[p]

\* one court was fetched and holds a new entry on the watchlist, the other fetch failed
C8_Witness ==
    \E p \in Procs, c \in Courts :
        /\ Started(p) /\ FetchFailed(p)
        /\ pacer_feeds[p][c] = HTTP_OK
        /\ \E i \in 1..Len(feeds[c]) : OnWatchlist(<<c, i>>) /\ PubTime(<<c, i>>) > startWm[p]

\* C9: a notify call tries every enabled channel once, in order, and no disabled one,
\* whichever sends fail, and no failure of a send leaves notify.
C9_ChannelIsolation ==
    \A p \in Procs :
        /\ ~delivery[p].raised
        /\ (Started(p) /\ pc[p] = "persist") =>
              delivery[p].attempted = Enabled(email[p], twitter[p])

\* both channels enabled, the e-mail failed and the tweet was still tried
C9_Witness ==
    \E p \in Procs :
        /\ Started(p) /\ pc[p] = "persist"
        /\ email[p] /\ twitter[p]
        /\ "email" \in delivery[p].caught
        /\ delivery[p].attempted = <<"email", "twitter">>

\* C10: in a completed run, every entry of a newest-first feed that is newer than the
\* watermark read at the start and is on its court's watchlist was notified exactly once.
NewestFirst(feed) ==
    \A i \in 1..Len(feed), j \in 1..Len(feed) :
        i < j => mktime(feed[i].published_parsed) >= mktime(feed[j].published_parsed)

C10_CompleteUnderNewestFirst ==
    \A p \in Procs :
        (Started(p) /\ pc[p] = "done") =>
            \A e \in AllEntries :
                (NewestFirst(feeds[e[1]]) /\ PubTime(e) > last_seen[p] /\ OnWatchlist(e))
                    => TimesNotified(run[p], e) = 1

\* a completed run over a newest-first feed with two new entries on the watchlist
C10_Witness ==
    \E p \in Procs, c \in Courts :
        /\ Started(p) /\ pc[p] = "done"
        /\ Len(feeds[c]) = 2 /\ NewestFirst(feeds[c])
        /\ PubTime(<<c, 1>>) > PubTime(<<c, 2>>)
        /\ \A i \in 1..2 : OnWatchlist(<<c, i>>) /\ PubTime(<<c, i>>) > last_seen[p]
        /\ Len(notified[run[p]]) = 2

\* C11: in every run the set_last_time calls follow the notifier calls one for one: the
\* i-th write is for the i-th notified entry and stores its publication time, a write is
\* outstanding exactly between a notifier call and the next step, and it is made whatever
\* the channels did.
C11_NotifyThenPersist ==
    \A p \in Procs :
        Started(p) =>
            LET n == notified[run[p]]
                w == written[run[p]]
            IN  /\ Len(w) <= Len(n)
                /\ \A i \in 1..Len(w) : w[i].entry = n[i] /\ w[i].value = PubTime(n[i])
                /\ pc[p] = "persist" => Len(n) = Len(w) + 1 /\ n[Len(n)] = <<court[p], idx[p]>>
                /\ pc[p] # "persist" => Len(w) = Len(n)
                /\ (pc[p] = "entries" /\ delivery[p].attempted # <<>>) =>
                        /\ w # <<>>
                        /\ Watermark = PubTime(n[Len(n)])

\* the watermark has just been written for an entry whose e-mail and tweet both failed
C11_Witness ==
    \E p \in Procs :
        /\ Started(p) /\ pc[p] = "entries"
        /\ delivery[p].attempted = <<"email", "twitter">>
        /\ delivery[p].caught = Channels
        /\ written[run[p]] # <<>>
        /\ Watermark = PubTime(notified[run[p]][Len(notified[run[p]])])
        /\ Watermark > startWm[p]

\* C12: the inner loop never moves past an entry published at or before the watermark
\* read at the start, so no entry at or behind such an entry is notified, even a newer one
\* on the watchlist; the other courts are still walked, each up to its own first such entry.
BeforeStop(e, seen) == \A j \in 1..e[2] : PubTime(<<e[1], j>>) > seen

C12_StopAtWatermark ==
    \A p \in Procs :
        Started(p) =>
            /\ pc[p] \in {"entries", "notify", "persist"} =>
                    \A j \in 1..(idx[p] - 1) :
                        j <= Len(feeds[court[p]]) => PubTime(<<court[p], j>>) > last_seen[p]
            /\ \A e \in NotifiedIn(run[p]) : BeforeStop(e, last_seen[p])
            /\ pc[p] = "done" =>
                    /\ visited[p] = DOMAIN cases
                    /\ \A e \in AllEntries :
                          (OnWatchlist(e) /\ BeforeStop(e, last_seen[p])) => e \in NotifiedIn(run[p])

\* a completed run over two courts left out a watched entry newer than the watermark
\* because an older entry stood before it in its feed
C12_Witness ==
    \E p \in Procs, e \in AllEntries :
        /\ Started(p) /\ pc[p] = "done"
        /\ Cardinality(DOMAIN cases) = 2
        /\ OnWatchlist(e) /\ PubTime(e) > last_seen[p]
        /\ e[2] > 1 /\ PubTime(<<e[1], e[2] - 1>>) <= last_seen[p]
        /\ e \notin NotifiedIn(run[p])

\* C13: every notified entry has, as what follows the last "?" of its link, an identifier
\* on the watchlist of the court whose feed it came from; a court with an empty watchlist
\* has its feed fetched and gets no notification and no watermark write.
FinalSegment(link, seg) ==
    \E k \in 0..Len(link) :
        /\ k > 0 => link[k] = "?"
        /\ k = 0 => \A j \in 1..Len(link) : link[j] # "?"
        /\ \A j \in (k + 1)..Len(link) : link[j] # "?"
        /\ seg = SubSeq(link, k + 1, Len(link))

C13_PerCourtMatching ==
    /\ \A r \in 1..MaxRuns : \A e \in NotifiedIn(r) :
          \E seg \in cases[e[1]] : FinalSegment(EntryOf(e).link, seg)
    /\ \A p \in Procs :
          (Started(p) /\ pc[p] = "done") =>
              \A c \in DOMAIN cases :
                  cases[c] = {} =>
                      /\ pacer_feeds[p][c] = HTTP_OK
                      /\ \A e \in NotifiedIn(run[p]) : e[1] # c
                      /\ \A i \in 1..Len(written[run[p]]) : written[run[p]][i].entry[1] # c

\* a completed run passed over a new entry of a court with an empty watchlist although its
\* identifier is on the other court's list
C13_Witness ==
    \E p \in Procs, e \in AllEntries, d \in Courts :
        /\ Started(p) /\ pc[p] = "done"
        /\ e[1] \in DOMAIN cases /\ cases[e[1]] = {}
        /\ d \in DOMAIN cases /\ d # e[1]
        /\ \E seg \in cases[d] : FinalSegment(EntryOf(e).link, seg)
        /\ PubTime(e) > last_seen[p]
        /\ e \notin NotifiedIn(run[p])
        /\ notified[run[p]] # <<>>

\* C14: a run reads the watermark exactly once, after every feed is fetched and before any
\* entry is examined; it writes the watermark exactly once for each matched entry and for
\* nothing else; a run without a match leaves the persisted watermark as it found it; and
\* the kill-switch file is as the run found it for as long as the run lasts.
TimesWritten(r, e) == Cardinality({ i \in 1..Len(written[r]) : written[r][i].entry = e })

C14_WatermarkAccessPattern ==
    \A p \in Procs :
        Started(p) =>
            /\ pc[p] \in {"load", "exited"} =>
                    /\ reads[p] = 0
                    /\ visited[p] = {} /\ notified[run[p]] = <<>> /\ written[run[p]] = <<>>
            /\ pc[p] \in {"courts", "entries", "notify", "persist", "done"} =>
                    /\ reads[p] = 1
                    /\ \A c \in DOMAIN cases : pacer_feeds[p][c] = HTTP_OK
            /\ \A i \in 1..Len(written[run[p]]) :
                    /\ OnWatchlist(written[run[p]][i].entry)
                    /\ TimesWritten(run[p], written[run[p]][i].entry) = 1
            /\ pc[p] = "done" =>
                    /\ \A e \in AllEntries :
                          TimesWritten(run[p], e) =
                              IF OnWatchlist(e) /\ BeforeStop(e, last_seen[p]) THEN 1 ELSE 0
                    /\ written[run[p]] = <<>> => Watermark = startWm[p]
            /\ ~Idle(p) => killswitch = startKs[p]
            /\ killswitch \in {startKs[p], set_kill_switch}

\* a completed run over two courts that wrote the watermark for two matched entries
C14_Witness ==
    \E p \in Procs :
        /\ Started(p) /\ pc[p] = "done"
        /\ reads[p] = 1
        /\ Len(written[run[p]]) = 2
        /\ written[run[p]][1].entry[1] # written[run[p]][2].entry[1]

\* C19: every value a run writes to the watermark is strictly greater than the watermark
\* the run read at its start, in whatever order the feeds list their entries; so, runs
\* not overlapping, the watermark during and after a run is at least the one it started from.
C19_WritesAboveLastSeen ==
    \A p \in Procs :
        Started(p) =>
            /\ \A i \in 1..Len(written[run[p]]) : written[run[p]][i].value > last_seen[p]
            /\ reads[p] = 1 => last_seen[p] = startWm[p]
            /\ Watermark >= startWm[p]
            /\ written[run[p]] # <<>> => Watermark > startWm[p]

\* a completed run wrote twice, the second value below the first
C19_Witness ==
    \E p \in Procs :
        /\ Started(p) /\ pc[p] = "done"
        /\ Len(written[run[p]]) = 2
        /\ written[run[p]][2].value < written[run[p]][1].value

WrittenIn(r) == { written[r][i].entry : i \in 1..Len(written[r]) }

C16_CrashPreservesProgress ==
    \A r \in crashed :
        r < MaxRuns => NotifiedIn(r + 1) \cap WrittenIn(r) = {}

\* C15: when the invocations do not overlap and every feed holds at most one entry on its
\* court's watchlist, no entry is notified by two invocations and no write of a later
\* invocation stores less than an earlier invocation has stored.
SingleMatchFeeds ==
    \A c \in DOMAIN cases :
        Cardinality({ i \in 1..Len(feeds[c]) : OnWatchlist(<<c, i>>) }) <= 1

C15_NoRaceWithoutOverlap ==
    (~overlapped /\ SingleMatchFeeds) =>
        \A r1 \in 1..MaxRuns, r2 \in 1..MaxRuns :
            r1 < r2 =>
                /\ NotifiedIn(r1) \cap NotifiedIn(r2) = {}
                /\ \A i \in 1..Len(written[r1]), j \in 1..Len(written[r2]) :
                      written[r2][j].value >= written[r1][i].value

\* C17: every run that has entered scrape and whose fetches all succeed eventually
\* completes with exit status 0, having walked every court of the watchlist, whatever the
\* notification channels do on each matched entry.
C17_UnconditionalCompletion ==
    \A p \in Procs :
        (pc[p] = "load") ~>
            \/ FetchFailed(p)
            \/ /\ pc[p] = "done"
               /\ exitcode[p] = 0
               /\ visited[p] = DOMAIN cases

\* a run over two courts completed after notifying entries with both channels enabled
C17_Witness ==
    \E p \in Procs :
        /\ Started(p) /\ pc[p] = "done" /\ exitcode[p] = 0
        /\ email[p] /\ twitter[p]
        /\ Cardinality(visited[p]) = 2
        /\ Len(notified[run[p]]) = 2

\* C18: parse_entry returns for every entry; documentNumber, link, court and description
\* are each the group of the leftmost, longest occurrence of their own pattern in their
\* own source text, and the sentinel "?" when that text holds no occurrence, whatever the
\* other texts hold; time is the entry's publication time as it came.
NumAt(s, i, j) ==
    /\ s[i] = ">" /\ s[j] = "<" /\ i + 1 < j
    /\ \A k \in (i + 1)..(j - 1) : s[k] \in Digits

HrefAt(s, i, j) ==
    /\ i + Len(Href) <= j /\ s[j] = "\""
    /\ \A k \in 1..Len(Href) : s[i + k - 1] = Href[k]
    /\ \A k \in (i + Len(Href))..(j - 1) : s[k] # NL

CourtAt(s, i, j) ==
    /\ i + Len(Ecf) < j /\ s[j] = "."
    /\ \A k \in 1..Len(Ecf) : s[i + k - 1] = Ecf[k]
    /\ \A k \in (i + Len(Ecf))..(j - 1) : s[k] \in Lower

BracketAt(s, i, j) ==
    /\ i = 1 /\ s[i] = "[" /\ s[j] = "]" /\ i + 1 < j
    /\ \A k \in (i + 1)..(j - 1) : s[k] # NL

Extracted(v, s, At(_, _, _), open) ==
    IF \E i \in 1..Len(s), j \in 1..Len(s) : At(s, i, j)
    THEN \E i \in 1..Len(s), j \in 1..Len(s) :
            /\ At(s, i, j)
            /\ \A i2 \in 1..Len(s), j2 \in 1..Len(s) :
                  At(s, i2, j2) => (i < i2 \/ (i = i2 /\ j2 <= j))
            /\ v = SubSeq(s, i + open, j - 1)
    ELSE v = Sentinel

C18_ExtractionTolerance ==
    parsed.called =>
        LET entry == parsed.entry
            info  == parsed.info
        IN  /\ ~info.raised
            /\ Extracted(info.num, entry.description, NumAt, 1)
            /\ Extracted(info.link, entry.description, HrefAt, Len(Href))
            /\ Extracted(info.court, entry.link, CourtAt, Len(Ecf))
            /\ Extracted(info.description, entry.summary, BracketAt, 1)
            /\ info.time = entry.published_parsed

\* a description without an href attribute: link is "?" while the document number, the
\* court and the description are the extracted texts
C18_Witness ==
    /\ parsed.called
    /\ ~\E i \in 1..Len(parsed.entry.description) : IsPrefixAt(Href, parsed.entry.description, i)
    /\ parsed.info.link = Sentinel
    /\ parsed.info.num = <<"4", "2">>
    /\ parsed.info.court = <<"n", "d">>
    /\ parsed.info.description = <<"x">>
    /\ parsed.info.time = parsed.entry.published_parsed

====
